---- MODULE Spec2Model ----
(***************************************************************************)
(* Model of the dental assistant: the knowledge base, formatter and tools  *)
(* of app.py, the dispatcher run_dental_agent, its terminal loop, and the  *)
(* /ask endpoint of api.py with its in-memory chat_sessions store.         *)
(*                                                                         *)
(* Text is a TLA+ string; a character is a string of length 1.             *)
(***************************************************************************)
EXTENDS Integers, Sequences, FiniteSets, TLC

VARIABLES
    remote,         \* the remote model: Runner input key -> outcomes it may produce
    chat_sessions,  \* api.py chat_sessions: session id -> reference of its list
    lists,          \* the list objects of the heap: reference -> sequence of turns
    generated,      \* the uuid4 values generated so far
    req,            \* per /ask request: the AskRequest body
    pc,             \* per /ask request: position in ask_dental_agent
    session_id,     \* per /ask request: local session_id (line 35)
    history,        \* per /ask request: local history, a list reference (line 37)
    runner_input,   \* per /ask request: what was handed to Runner.run
    calls,          \* per /ask request: number of Runner.run calls issued
    resp,           \* per /ask request: the AskResponse returned
    overlap,        \* session ids on which two requests were in flight together
    cli_pc,         \* terminal loop: position in main()
    cli_query,      \* terminal loop: the line read by input()
    cli_outcome,    \* terminal loop: what Runner.run produced
    cli_result,     \* terminal loop: what run_dental_agent produced
    cli_printed,    \* terminal loop: the last text printed
    tool_call       \* the last tool invocation made by the remote model

vars == <<remote, chat_sessions, lists, generated, req, pc, session_id, history,
          runner_input, calls, resp, overlap,
          cli_pc, cli_query, cli_outcome, cli_result, cli_printed, tool_call>>

apiVars == <<chat_sessions, lists, generated, req, pc, session_id, history,
             runner_input, calls, resp, overlap>>

cliVars == <<cli_pc, cli_query, cli_outcome, cli_result, cli_printed, tool_call>>

\* The number of /ask requests a behaviour holds.
MaxRequests == 3

\* The number of /ask requests a behaviour holds when the remote model is
\* deterministic.
MaxDetRequests == 2

(***************************************************************************)
(* Python str operations, character by character.                          *)
(***************************************************************************)
UpperLetters == "ABCDEFGHIJKLMNOPQRSTUVWXYZ"

LowerLetters == "abcdefghijklmnopqrstuvwxyz"

\* The characters str.strip() removes (the ASCII ones).
Whitespace == {" ", "\t", "\n", "\r", "\f"}

CharAt(s, i) == SubSeq(s, i, i)

\* Position of character c in text s, 0 when absent.
IndexIn(c, s) ==
    IF \E i \in 1..Len(s) : CharAt(s, i) = c
    THEN CHOOSE i \in 1..Len(s) : CharAt(s, i) = c
    ELSE 0

LowerChar(c) ==
    IF IndexIn(c, UpperLetters) = 0 THEN c ELSE CharAt(LowerLetters, IndexIn(c, UpperLetters))

UpperChar(c) ==
    IF IndexIn(c, LowerLetters) = 0 THEN c ELSE CharAt(UpperLetters, IndexIn(c, LowerLetters))

IsCased(c) == IndexIn(c, UpperLetters) # 0 \/ IndexIn(c, LowerLetters) # 0

\* str.lower()
RECURSIVE Lower(_)
Lower(s) == IF s = "" THEN "" ELSE LowerChar(CharAt(s, 1)) \o Lower(Tail(s))

\* str.title(): a cased character is upper-cased after an uncased one (or at
\* the start) and lower-cased after a cased one.
RECURSIVE TitleFrom(_, _)
TitleFrom(s, prevCased) ==
    IF s = "" THEN ""
    ELSE LET c == CharAt(s, 1) IN
         (IF prevCased THEN LowerChar(c) ELSE UpperChar(c)) \o TitleFrom(Tail(s), IsCased(c))

Title(s) == TitleFrom(s, FALSE)

RECURSIVE LStrip(_)
LStrip(s) ==
    IF s # "" /\ CharAt(s, 1) \in Whitespace THEN LStrip(Tail(s)) ELSE s

RECURSIVE RStrip(_)
RStrip(s) ==
    IF s # "" /\ CharAt(s, Len(s)) \in Whitespace THEN RStrip(SubSeq(s, 1, Len(s) - 1)) ELSE s

\* str.strip()
Strip(s) == RStrip(LStrip(s))

\* sep.join(items)
RECURSIVE Join(_, _)
Join(sep, items) ==
    IF items = <<>> THEN ""
    ELSE IF Len(items) = 1 THEN items[1]
    ELSE items[1] \o sep \o Join(sep, Tail(items))

\* Whether text sub occurs in text s starting at position i.
OccursAt(sub, s, i) == i >= 1 /\ i + Len(sub) - 1 <= Len(s) /\ SubSeq(s, i, i + Len(sub) - 1) = sub

\* Python's `sub in s`.
Contains(s, sub) == \E i \in 1..(Len(s) + 1) : OccursAt(sub, s, i)

(***************************************************************************)
(* Formatter (app.py, DotFormatter).                                       *)
(***************************************************************************)
format_list(items) ==
    Join("\n", [i \in 1..Len(items) |-> ". **" \o items[i] \o "**"])

format_numbered(items) ==
    Join("\n", [i \in 1..Len(items) |-> ToString(i) \o ". **" \o items[i] \o "**"])

(***************************************************************************)
(* Knowledge base (app.py, CORE_CONTENT).  A dict keeps insertion order:   *)
(* the keys are a sequence, the entries a function on them.                *)
(***************************************************************************)
ConditionKeys == <<"gum infection", "tooth decay", "sensitivity">>

Conditions ==
    [k \in {ConditionKeys[i] : i \in 1..Len(ConditionKeys)} |->
        CASE k = "gum infection" ->
               [purpose |-> "Detect gum inflammation or gingivitis",
                how_to_use |-> "Upload a photo of your gums and answer quiz questions",
                benefits |-> "Helps early detection and prevents progression"]
          [] k = "tooth decay" ->
               [purpose |-> "Identify cavities or decay",
                how_to_use |-> "Upload a tooth photo, select pain area, answer sensitivity quiz",
                benefits |-> "Provides early treatment recommendations"]
          [] k = "sensitivity" ->
               [purpose |-> "Detect enamel thinning or exposed roots",
                how_to_use |-> "Describe your symptoms (cold/hot/chewing pain)",
                benefits |-> "Guides next steps for treatment"]]

Overview ==
    <<"Smart Dental Assistant: Upload a photo + symptoms to get a diagnosis",
      "Symptom Quiz: Guided questions about your pain",
      "Voice Assistant: Ask about dental health",
      "Doctor Connect: Schedule appointments after diagnosis">>

(***************************************************************************)
(* Tools (app.py).  These are the bodies of the decorated functions, which *)
(* the agents SDK runs when the remote model asks for a tool.              *)
(***************************************************************************)
\* A variant that looks the name up as given, without lower-casing it.
get_condition_info_nolower(condition_name) ==
    IF condition_name \notin DOMAIN Conditions
    THEN format_list(<<"I only know these conditions: " \o Join(", ", ConditionKeys),
                       "Pick one!">>)
    ELSE format_list(<<Title(condition_name),
                       "Purpose: " \o Conditions[condition_name].purpose,
                       "How to use: " \o Conditions[condition_name].how_to_use,
                       "Benefits: " \o Conditions[condition_name].benefits>>)

get_condition_info(condition_name) ==
    IF Lower(condition_name) \notin DOMAIN Conditions
    THEN format_list(<<"I only know these conditions: " \o Join(", ", ConditionKeys),
                       "Pick one!">>)
    ELSE format_list(<<Title(condition_name),
                       "Purpose: " \o Conditions[Lower(condition_name)].purpose,
                       "How to use: " \o Conditions[Lower(condition_name)].how_to_use,
                       "Benefits: " \o Conditions[Lower(condition_name)].benefits>>)

get_overview_body == format_numbered(Overview)

list_conditions == format_list(<<"Conditions I can check:">> \o ConditionKeys)

(***************************************************************************)
(* Results of a Python call: a returned value or a raised exception.       *)
(***************************************************************************)
Return(v) == [raised |-> FALSE, exc |-> "", value |-> v]

Raise(e) == [raised |-> TRUE, exc |-> e, value |-> ""]

\* The exception classes in play; all derive from Exception, which is what
\* `except Exception` (app.py line 135) catches.
ExceptionClasses ==
    {"APIConnectionError", "APITimeoutError", "ModelBehaviorError", "MaxTurnsExceeded",
     "TypeError"}

IsException(e) == e \in ExceptionClasses

\* What Runner.run raises: transport failures, a final output that does not
\* validate against MessageOutput, the turn limit.
RunnerErrors == {"APIConnectionError", "APITimeoutError", "ModelBehaviorError", "MaxTurnsExceeded"}

(***************************************************************************)
(* The call expression get_overview() of lines 133 and 136.                *)
(*                                                                         *)
(* At module level get_overview is what @function_tool returned (lines     *)
(* 88-90): the SDK's FunctionTool object (name, description,               *)
(* params_json_schema, on_invoke_tool), which the Agent takes in tools=[]  *)
(* (line 121).  FunctionTool defines no __call__, so the call expression   *)
(* raises TypeError ('FunctionTool' object is not callable); the function  *)
(* body runs only through on_invoke_tool, when the remote model asks for   *)
(* the tool.                                                               *)
(***************************************************************************)
FunctionToolIsCallable == FALSE

get_overview ==
    IF FunctionToolIsCallable THEN Return(get_overview_body) ELSE Raise("TypeError")

(***************************************************************************)
(* Dispatcher (app.py, run_dental_agent), from the point where the awaited *)
(* Runner.run has produced outcome o: its value is final_output.response.  *)
(***************************************************************************)
\* A variant that returns the trimmed response.
run_dental_agent_trimmed(o) ==
    LET try == IF o.raised THEN o
               ELSE IF Strip(o.value) = "" THEN get_overview
               ELSE Return(Strip(o.value))
    IN  IF try.raised /\ IsException(try.exc) THEN get_overview ELSE try

run_dental_agent(o) ==
    LET try == IF o.raised THEN o                                \* line 130 raises
               ELSE IF Strip(o.value) = "" THEN get_overview     \* lines 132-133
               ELSE Return(o.value)                              \* line 134
    IN  IF try.raised /\ IsException(try.exc) THEN get_overview  \* lines 135-136
        ELSE try

(***************************************************************************)
(* The remote model.  Runner.run(dental_agent, query) hands it the agent   *)
(* (instructions, tools, output type: all constant) and the query string   *)
(* as its whole input; no earlier turn is passed.                          *)
(***************************************************************************)
Queries == {"", "What is tooth decay?"}

\* A variant that also hands over the turns already in the session's list.
RunnerInput_with_history(query, turns) == [query |-> query, context |-> turns]

RunnerInput(query, turns) == [query |-> query, context |-> <<>>]

\* What the remote model's behaviour may depend on.
RemoteKeys == [query : Queries, hasContext : BOOLEAN]

RemoteKey(input) == [query |-> input.query, hasContext |-> input.context # <<>>]

\* Outcomes of Runner.run seen by the terminal loop.
CliOutcomes ==
    {Raise(e) : e \in RunnerErrors} \cup
    {Return(t) : t \in {"", " ", "\n", " \t\r\n", "See a dentist.", " ok", "ok \n",
                        ". **Brush twice a day**\n. **See a dentist**", get_overview_body}}

\* Outcomes of Runner.run seen by /ask.
ApiOutcomes ==
    {Raise("APIConnectionError"), Return(" "), Return("See a dentist."), Return(" ok\n")}

(***************************************************************************)
(* Terminal loop (app.py, main, lines 158-166).                            *)
(***************************************************************************)
CliLines == Queries \cup {"exit", "QUIT", "Quit"}

\* Names the remote model may pass to get_condition_info.
ToolNames ==
    {"tooth decay", "Tooth Decay", "GUM INFECTION", "Gum infection", "sensitivity",
     "SENSITIVITY", "sEnSiTiViTy", "", "braces", "Tooth", " tooth decay", "tooth decay ",
     "tooth  decay", "gum-infection", "Sensitivity!"}

NoToolCall == [name |-> "", arg |-> "", output |-> ""]

\* Before the first call of run_dental_agent there is no outcome and no result.
NotYet == [raised |-> FALSE, exc |-> "not yet", value |-> ""]

CliInit ==
    /\ cli_pc = "input"
    /\ cli_query = ""
    /\ cli_outcome = NotYet
    /\ cli_result = NotYet
    /\ cli_printed = ". **Welcome! Ask me about dental conditions or upload an image for diagnosis.**"
    /\ tool_call = NoToolCall

\* Lines 161-165: read a line; leave on exit/quit, else call run_dental_agent,
\* which awaits Runner.run (line 130).
CliInput(line) ==
    /\ cli_pc = "input"
    /\ cli_query' = line
    /\ IF Lower(line) \in {"exit", "quit"}
       THEN /\ cli_printed' = ". **Bye!**"
            /\ cli_pc' = "exited"
            /\ UNCHANGED tool_call
       ELSE /\ cli_pc' = "awaiting"
            /\ tool_call' = NoToolCall
            /\ UNCHANGED cli_printed
    /\ UNCHANGED <<cli_outcome, cli_result, remote>>
    /\ UNCHANGED apiVars

\* While Runner.run is awaited the remote model may ask for any tool, in any
\* order; the SDK runs the tool's function body on the arguments it sent.
CliToolCall ==
    /\ cli_pc = "awaiting"
    /\ \/ \E n \in ToolNames :
            tool_call' = [name |-> "get_condition_info", arg |-> n,
                          output |-> get_condition_info(n)]
       \/ tool_call' = [name |-> "get_overview", arg |-> "", output |-> get_overview_body]
       \/ tool_call' = [name |-> "list_conditions", arg |-> "", output |-> list_conditions]
    /\ UNCHANGED <<cli_pc, cli_query, cli_outcome, cli_result, cli_printed, remote>>
    /\ UNCHANGED apiVars

\* Runner.run ends; lines 131-136 and 166 run.  An exception leaving
\* run_dental_agent leaves main() and asyncio.run.
CliResume ==
    /\ cli_pc = "awaiting"
    /\ \E o \in remote[RemoteKey(RunnerInput(cli_query, <<>>))] :
         /\ cli_outcome' = o
         /\ cli_result' = run_dental_agent(o)
         /\ IF run_dental_agent(o).raised
            THEN /\ cli_pc' = "crashed"
                 /\ UNCHANGED cli_printed
            ELSE /\ cli_pc' = "input"
                 /\ cli_printed' = run_dental_agent(o).value \o "\n"
    /\ UNCHANGED <<cli_query, tool_call, remote>>
    /\ UNCHANGED apiVars

ApiIdle ==
    /\ chat_sessions = [s \in {} |-> 0]
    /\ lists = [r \in 1..MaxRequests |-> <<>>]
    /\ generated = {}
    /\ req = [r \in 1..MaxRequests |-> [query |-> "", session_id |-> {}]]
    /\ pc = [r \in 1..MaxRequests |-> "idle"]
    /\ session_id = [r \in 1..MaxRequests |-> ""]
    /\ history = [r \in 1..MaxRequests |-> 0]
    /\ runner_input = [r \in 1..MaxRequests |-> RunnerInput("", <<>>)]
    /\ calls = [r \in 1..MaxRequests |-> 0]
    /\ resp = [r \in 1..MaxRequests |-> [session_id |-> "", response |-> ""]]
    /\ overlap = {}

InitAgent ==
    /\ remote = [k \in RemoteKeys |-> CliOutcomes]
    /\ CliInit
    /\ ApiIdle

NextAgent ==
    \/ \E line \in CliLines : CliInput(line)
    \/ CliToolCall
    \/ CliResume

\* The terminal program alone.
SpecAgent == InitAgent /\ [][NextAgent]_vars

(***************************************************************************)
(* The /ask endpoint (api.py, ask_dental_agent).  The handler is a         *)
(* coroutine on a single event loop: lines 35-38 and the start of the      *)
(* remote call run without interruption, the handler is suspended while    *)
(* Runner.run is awaited (line 40, app.py line 130), and the rest runs     *)
(* without interruption once the remote call has ended.  Requests are      *)
(* numbered in the order in which they arrive.                             *)
(***************************************************************************)
Requests == 1..MaxRequests

\* Session ids a client makes up; the empty string is a str like any other
\* for AskRequest (line 25).
ClientSids == {"", "s1"}

\* str(uuid.uuid4()): the values uuid4 can return.  A value is taken to be
\* returned at most once in a process run, and not to be guessed by a client
\* before a response has carried it; which of the unused values a call
\* returns makes no difference, so the n-th call returns the n-th.
Uuids == {"uuid-" \o ToString(n) : n \in Requests}

Uuid4 == "uuid-" \o ToString(Cardinality(generated) + 1)

\* An optional str is a set with at most one element: {} is None.
OptionalSids == {{}} \cup {{s} : s \in ClientSids \cup Uuids}

\* `a or b` on an optional str a: b when a is None or the empty string.
\* A variant that ignores what the request supplied.
SessionIdOr_always_new(a, b) == b

SessionIdOr(a, b) ==
    IF a # {} /\ (CHOOSE s \in a : TRUE) # "" THEN CHOOSE s \in a : TRUE ELSE b

\* The turns appended at lines 38 and 42.  The field request is not part of
\* the dict: it names the request that appended the turn.
UserTurn(r, query) == [role |-> "user", content |-> query, request |-> r]

AssistantTurn(r, response) == [role |-> "assistant", content |-> response, request |-> r]

\* Session ids a client has been sent in a response.
ReturnedSids == {resp[x].session_id : x \in {y \in Requests : pc[y] = "done"}}

\* A variant of lines 35-40 that forgets to append the user turn.
AskStart_no_user_turn(r, query, so) ==
    /\ pc[r] = "idle"
    /\ \A x \in Requests : x < r => pc[x] # "idle"
    /\ so \in {{}} \cup {{s} : s \in ClientSids \cup ReturnedSids}
    /\ \E u \in {Uuid4} :
         LET sid == SessionIdOr(so, u)
             ref == IF sid \in DOMAIN chat_sessions THEN chat_sessions[sid] ELSE r
         IN  /\ generated' = IF sid = u THEN generated \cup {u} ELSE generated
             /\ req' = [req EXCEPT ![r] = [query |-> query, session_id |-> so]]
             /\ session_id' = [session_id EXCEPT ![r] = sid]
             /\ history' = [history EXCEPT ![r] = ref]
             /\ runner_input' = [runner_input EXCEPT ![r] = RunnerInput(query, lists[ref])]
             /\ overlap' = IF \E x \in Requests : pc[x] = "awaiting" /\ session_id[x] = sid
                           THEN overlap \cup {sid} ELSE overlap
    /\ calls' = [calls EXCEPT ![r] = @ + 1]
    /\ pc' = [pc EXCEPT ![r] = "awaiting"]
    /\ UNCHANGED <<chat_sessions, lists, resp, remote>>
    /\ UNCHANGED cliVars

\* Lines 35-40, up to the suspension in Runner.run.
AskStart(r, query, so) ==
    /\ pc[r] = "idle"
    /\ \A x \in Requests : x < r => pc[x] # "idle"
    /\ so \in {{}} \cup {{s} : s \in ClientSids \cup ReturnedSids}
    /\ \E u \in {Uuid4} :
         LET sid == SessionIdOr(so, u)                                   \* line 35
             ref == IF sid \in DOMAIN chat_sessions                      \* line 37
                    THEN chat_sessions[sid] ELSE r
         IN  /\ generated' = IF sid = u THEN generated \cup {u} ELSE generated
             /\ req' = [req EXCEPT ![r] = [query |-> query, session_id |-> so]]
             /\ session_id' = [session_id EXCEPT ![r] = sid]
             /\ history' = [history EXCEPT ![r] = ref]
             /\ lists' = [lists EXCEPT ![ref] = Append(@, UserTurn(r, query))]  \* line 38
             /\ runner_input' = [runner_input EXCEPT ![r] = RunnerInput(query, lists[ref])]
             /\ overlap' = IF \E x \in Requests : pc[x] = "awaiting" /\ session_id[x] = sid
                           THEN overlap \cup {sid} ELSE overlap
    /\ calls' = [calls EXCEPT ![r] = @ + 1]                              \* line 40
    /\ pc' = [pc EXCEPT ![r] = "awaiting"]
    /\ UNCHANGED <<chat_sessions, resp, remote>>
    /\ UNCHANGED cliVars

\* A variant of run_dental_agent that calls Runner.run again after an error.
AskFinish_retry(r) ==
    /\ pc[r] = "awaiting"
    /\ \E o \in remote[RemoteKey(runner_input[r])] :
         IF o.raised
         THEN /\ calls[r] < 2
              /\ calls' = [calls EXCEPT ![r] = @ + 1]
              /\ UNCHANGED <<pc, lists, chat_sessions, resp>>
         ELSE IF run_dental_agent(o).raised
         THEN /\ pc' = [pc EXCEPT ![r] = "failed"]
              /\ UNCHANGED <<lists, chat_sessions, resp, calls>>
         ELSE /\ lists' = [lists EXCEPT ![history[r]] =
                              Append(@, AssistantTurn(r, run_dental_agent(o).value))]
              /\ chat_sessions' = (session_id[r] :> history[r]) @@ chat_sessions
              /\ resp' = [resp EXCEPT ![r] = [session_id |-> session_id[r],
                                              response |-> run_dental_agent(o).value]]
              /\ pc' = [pc EXCEPT ![r] = "done"]
              /\ UNCHANGED calls
    /\ UNCHANGED <<generated, req, session_id, history, runner_input, overlap, remote>>
    /\ UNCHANGED cliVars

\* Runner.run ends with outcome o; app.py lines 131-136 and api.py lines 40-45
\* run.  An exception leaving run_dental_agent leaves the handler at line 40.
AskFinish(r) ==
    /\ pc[r] = "awaiting"
    /\ \E o \in remote[RemoteKey(runner_input[r])] :
         IF run_dental_agent(o).raised
         THEN /\ pc' = [pc EXCEPT ![r] = "failed"]
              /\ UNCHANGED <<lists, chat_sessions, resp>>
         ELSE /\ lists' = [lists EXCEPT ![history[r]] =                   \* line 42
                              Append(@, AssistantTurn(r, run_dental_agent(o).value))]
              /\ chat_sessions' = (session_id[r] :> history[r]) @@ chat_sessions  \* line 43
              /\ resp' = [resp EXCEPT ![r] = [session_id |-> session_id[r],       \* line 45
                                              response |-> run_dental_agent(o).value]]
              /\ pc' = [pc EXCEPT ![r] = "done"]
    /\ UNCHANGED <<generated, req, session_id, history, runner_input, calls, overlap, remote>>
    /\ UNCHANGED cliVars

Init ==
    /\ remote = [k \in RemoteKeys |-> ApiOutcomes]
    /\ ApiIdle
    /\ CliInit

\* The remote model answers every input in one fixed way.
InitDet ==
    /\ remote \in [RemoteKeys -> {{o} : o \in ApiOutcomes}]
    /\ ApiIdle
    /\ CliInit

Next ==
    \/ \E r \in Requests, query \in Queries, so \in OptionalSids : AskStart(r, query, so)
    \/ \E r \in Requests : AskFinish(r)

\* The API server with a remote model that may answer anything at any time.
Spec == Init /\ [][Next]_vars

NextDet ==
    \/ \E r \in 1..MaxDetRequests, query \in Queries, so \in OptionalSids :
          AskStart(r, query, so)
    \/ \E r \in Requests : AskFinish(r)

\* The API server with a deterministic remote model.
SpecDet == InitDet /\ [][NextDet]_vars

(***************************************************************************)
(* Properties of the dispatcher and the tools, under SpecAgent.            *)
(***************************************************************************)
\* A call of run_dental_agent has ended.
CliCallEnded == cli_outcome # NotYet

\* C1 (as claimed): when Runner.run raises, run_dental_agent returns exactly
\* the overview text and raises nothing.
C1_ErrorFallbackReturnsOverview ==
    (CliCallEnded /\ cli_outcome.raised) => cli_result = Return(get_overview_body)

\* C2 (as claimed): when Runner.run returns an empty or whitespace-only
\* response, run_dental_agent returns the overview text, never blank text.
C2_EmptyFallbackReturnsOverview ==
    (CliCallEnded /\ ~cli_outcome.raised /\ Strip(cli_outcome.value) = "")
        => (cli_result = Return(get_overview_body) /\ Strip(cli_result.value) # "")

\* C6: when Runner.run returns a response that is not blank after trimming,
\* run_dental_agent returns that response as it is, untrimmed.
C6_SuccessReturnsVerbatim ==
    (CliCallEnded /\ ~cli_outcome.raised /\ Strip(cli_outcome.value) # "")
        => (cli_result = Return(cli_outcome.value) /\ cli_pc # "crashed")

C6_Witness ==
    /\ cli_outcome = Return("ok \n")
    /\ cli_result = Return("ok \n")
    /\ cli_printed = "ok \n\n"

\* The lines of a text.
RECURSIVE SplitLines(_)
SplitLines(s) ==
    IF IndexIn("\n", s) = 0 THEN <<s>>
    ELSE <<SubSeq(s, 1, IndexIn("\n", s) - 1)>> \o SplitLines(SubSeq(s, IndexIn("\n", s) + 1, Len(s)))

IsBullet(line) == Len(line) >= 6 /\ OccursAt(". **", line, 1) /\ OccursAt("**", line, Len(line) - 1)

\* The first position at or after `from` where text sub occurs in text s,
\* 0 when there is none.
FirstAt(sub, s, from) ==
    IF \E i \in from..Len(s) : OccursAt(sub, s, i)
    THEN CHOOSE i \in from..Len(s) :
            OccursAt(sub, s, i) /\ \A j \in from..(i - 1) : ~OccursAt(sub, s, j)
    ELSE 0

\* The known topic names occur in text s one after another, in declaration order.
NamesInOrder(s) ==
    LET i == FirstAt("gum infection", s, 1)
        j == IF i = 0 THEN 0 ELSE FirstAt("tooth decay", s, i + Len("gum infection"))
        k == IF j = 0 THEN 0 ELSE FirstAt("sensitivity", s, j + Len("tooth decay"))
    IN  i # 0 /\ j # 0 /\ k # 0

\* C8: get_condition_info on a name whose lower-cased form is no key returns
\* a bulleted guidance message naming every known topic in declaration
\* order; on a name whose lower-cased form is a key it returns the four-line
\* block of that topic (title, purpose, how to use, benefits).
C8_ConditionInfo ==
    tool_call.name = "get_condition_info" =>
        LET lines == SplitLines(tool_call.output)
            key == Lower(tool_call.arg)
        IN  /\ \A i \in 1..Len(lines) : IsBullet(lines[i])
            /\ IF key \notin {"gum infection", "tooth decay", "sensitivity"}
               THEN /\ NamesInOrder(tool_call.output)
                    /\ Len(lines) = 2
               ELSE /\ Len(lines) = 4
                    /\ Lower(lines[1]) = ". **" \o key \o "**"
                    /\ lines[2] = ". **Purpose: " \o Conditions[key].purpose \o "**"
                    /\ lines[3] = ". **How to use: " \o Conditions[key].how_to_use \o "**"
                    /\ lines[4] = ". **Benefits: " \o Conditions[key].benefits \o "**"

C8_Witness ==
    /\ tool_call.name = "get_condition_info"
    /\ tool_call.arg = "braces"
    /\ Contains(tool_call.output, "gum infection, tooth decay, sensitivity")

(***************************************************************************)
(* Properties of the /ask endpoint, under Spec and SpecDet.                *)
(***************************************************************************)
Started == {r \in Requests : pc[r] # "idle"}

Ended == {r \in Requests : pc[r] \in {"done", "failed"}}

\* The history stored under session id s.
Stored(s) == lists[chat_sessions[s]]

IsPrefix(a, b) == Len(a) <= Len(b) /\ SubSeq(b, 1, Len(a)) = a

\* The requests that supplied session id s, and the i-th of them to arrive.
Supplying(s) == {r \in Started : req[r].session_id = {s}}

Nth(R, i) == CHOOSE r \in R : Cardinality({x \in R : x < r}) = i - 1

\* C3 (as claimed, for a non-empty session id): once n >= 1 requests that
\* supplied the same session id have run one after another, the history
\* stored under that id is their 2n turns: the i-th request's query, then
\* the response returned for it.
C3_SequentialHistory ==
    \A s \in ClientSids \ {""} :
        (Supplying(s) # {} /\ Supplying(s) \subseteq Ended /\ s \notin overlap) =>
            /\ s \in DOMAIN chat_sessions
            /\ Len(Stored(s)) = 2 * Cardinality(Supplying(s))
            /\ \A i \in 1..Cardinality(Supplying(s)) :
                 LET r == Nth(Supplying(s), i)
                 IN  /\ pc[r] = "done"
                     /\ Stored(s)[2 * i - 1] = UserTurn(r, req[r].query)
                     /\ Stored(s)[2 * i] = AssistantTurn(r, resp[r].response)

\* C4 (as claimed): the history stored under a session id only ever grows by
\* appending: no step removes or replaces a turn once it is stored.
C4_AppendOnly ==
    [][\A s \in DOMAIN chat_sessions :
          /\ s \in DOMAIN chat_sessions'
          /\ IsPrefix(lists[chat_sessions[s]], lists'[chat_sessions'[s]])]_vars

\* The session id a request supplied is usable as it stands.
Truthy(so) == so # {} /\ so # {""}

C5_Identifiers ==
    /\ \A r \in Started :
         /\ Truthy(req[r].session_id) => session_id[r] \in req[r].session_id
         /\ ~Truthy(req[r].session_id) =>
               /\ session_id[r] \in Uuids
               /\ \A x \in Started : x < r => session_id[x] # session_id[r]
         /\ pc[r] = "done" => resp[r].session_id = session_id[r]
    /\ \A r1, r2 \in Started :
         (r1 # r2 /\ ~Truthy(req[r1].session_id) /\ ~Truthy(req[r2].session_id))
            => session_id[r1] # session_id[r2]

\* C5 (amended), in every step: when a request returns, its user turn and
\* its assistant turn are in the history stored under the id it gets back.
C5_StoredOnReturn ==
    \A r \in Requests :
        (pc[r] = "awaiting" /\ pc'[r] = "done") =>
            /\ resp'[r].session_id \in DOMAIN chat_sessions'
            /\ \E i, j \in 1..Len(lists'[chat_sessions'[resp'[r].session_id]]) :
                 /\ i < j
                 /\ lists'[chat_sessions'[resp'[r].session_id]][i] = UserTurn(r, req[r].query)
                 /\ lists'[chat_sessions'[resp'[r].session_id]][j] =
                        AssistantTurn(r, resp'[r].response)

C7_NoRetry ==
    \A r \in Requests :
        /\ pc[r] = "idle" => calls[r] = 0
        /\ pc[r] # "idle" => calls[r] = 1

C7_Witness ==
    \E r1, r2 \in Requests :
        /\ pc[r1] = "failed" /\ calls[r1] = 1
        /\ pc[r2] = "done" /\ calls[r2] = 1

\* C9: the remote model is handed the request's query and nothing of the
\* session, so with a deterministic remote model two requests with the same
\* query end the same way, with the same response, whatever chat_sessions
\* holds and whichever session id they use.
C9_HistoryIndependent ==
    /\ \A r \in Started : runner_input[r] = [query |-> req[r].query, context |-> <<>>]
    /\ \A r1, r2 \in Ended :
         req[r1].query = req[r2].query =>
            (pc[r1] = pc[r2] /\ resp[r1].response = resp[r2].response)

C9_Witness ==
    \E r1, r2 \in Requests :
        /\ r1 < r2
        /\ pc[r1] = "done" /\ pc[r2] = "done"
        /\ req[r1].query = req[r2].query
        /\ req[r1].session_id = {} /\ req[r2].session_id = {resp[r1].session_id}
        /\ Len(Stored(resp[r1].session_id)) = 4
        /\ resp[r1].response = resp[r2].response

\* C10: an assistant turn in a stored history belongs to a request that has
\* returned, carries exactly the response returned to that request, and
\* comes after that request's user turn in the same history.
C10_TurnPairing ==
    \A s \in DOMAIN chat_sessions :
        \A i \in 1..Len(Stored(s)) :
            Stored(s)[i].role = "assistant" =>
                LET r == Stored(s)[i].request
                IN  /\ pc[r] = "done"
                    /\ Stored(s)[i].content = resp[r].response
                    /\ \E j \in 1..(i - 1) : Stored(s)[j] = UserTurn(r, req[r].query)

\* Two requests interleaved in the list of an existing session.
C10_Witness ==
    \E s \in DOMAIN chat_sessions :
        /\ Len(Stored(s)) = 6
        /\ Stored(s)[3].role = "user" /\ Stored(s)[4].role = "user"
        /\ Stored(s)[5] = AssistantTurn(Stored(s)[4].request, resp[Stored(s)[4].request].response)
        /\ Stored(s)[6] = AssistantTurn(Stored(s)[3].request, resp[Stored(s)[3].request].response)

====
